---- MODULE Spec2Model ----
(***************************************************************************)
(* Model of src/src/main.rs: the warp handler `availability` (cache-aside  *)
(* store lookup in `list_stores`, then one checkSlots probe per store      *)
(* collected with FuturesUnordered::try_collect).                          *)
(*                                                                         *)
(* Each request is one tokio task.  A task runs from one .await to the     *)
(* next; every action below is one such segment (or the completion of one  *)
(* awaited upstream I/O together with the code that runs after it up to    *)
(* the next .await).  The only state shared between tasks is the DashMap   *)
(* store_cache.                                                            *)
(***************************************************************************)
EXTENDS Integers, Sequences, FiniteSets, TLC

\* ------------------------------------------------------------- bounds
\* longest store list the getStores upstream answers with
MaxStores == 2

\* the requests (tasks running `availability`) the model follows, numbered in
\* arrival order
Requests == {1, 2}

\* postal codes used as the path parameter / cache key
ZipCodes == {"10001", "90210"}

\* ------------------------------------------------------------- data
\* struct Store
Store(n, a, z, p) == [store_number |-> n, address |-> a, zip_code |-> z, phone |-> p]

S100 == Store(100, "1 Main St", "10001", "555-0001")
S200 == Store(200, "2 Main St", "10001", "555-0002")
S300 == Store(300, "3 Palm Dr", "90210", "555-0003")

\* what the getStores upstream knows near each postal code, nearest first
Nearby(z) == IF z = "10001" THEN <<S100, S200, S300>> ELSE <<S300, S200, S100>>

\* the store lists a successful, decoded getStores answer for z can carry
\* (GetStoresResponse.data.stores): the upstream's list changes over time
StoreLists(z) == {SubSeq(Nearby(z), 1, n) : n \in 0..MaxStores}

\* keys of CheckSlotsData.slots seen from the upstream
SlotKeys == {"0", "1", "2", "3"}

\* every decoded CheckSlotsData.slots : HashMap<String, bool> over SlotKeys
SlotMaps == UNION {[K -> BOOLEAN] : K \in SUBSET SlotKeys}

\* the slot maps the probes of the request model receive
ProbeSlotMaps == UNION {[K -> BOOLEAN] : K \in SUBSET {"1", "2"}}

\* HashMap::get(key).unwrap_or(&false)
GetOrFalse(slots, k) == IF k \in DOMAIN slots THEN slots[k] ELSE FALSE

\* the policy without its size test
PossibleAvailabilityNoLen(slots) == GetOrFalse(slots, "1") /\ GetOrFalse(slots, "1")

\* main.rs 205-207
PossibleAvailability(slots) ==
    /\ GetOrFalse(slots, "1")
    /\ GetOrFalse(slots, "1")
    /\ Cardinality(DOMAIN slots) = 2

\* struct AvailabilityResponse, built at main.rs 209-215
AvailabilityResponse(store, pa) ==
    [id |-> store.store_number, address |-> store.address,
     possible_availability |-> pa, zip |-> store.zip_code, phone |-> store.phone]

\* ------------------------------------------------------------- state
VARIABLES
    store_cache,  \* Arc<DashMap<String, GetStoresResponse>>: zip -> store list
    pc,           \* per request: where the task running `availability` is
    zip_code,     \* per request: the path parameter
    source,       \* per request: the `source` of the "list stores" span
    response,     \* per request: data.stores of what list_stores returned
    requests,     \* per request: the FuturesUnordered of probe futures
    collected,    \* per request: the Vec try_collect has built so far
    reply,        \* per request: what the handler returned to warp
    storeCalls,   \* per request: getStores GETs sent
    lastInsert,   \* per zip: the request whose insert wrote the entry (0: none)
    before,       \* per request: the requests that had returned when it began
    check         \* one evaluation of main.rs 205-207 on a decoded slot map

vars == <<store_cache, pc, zip_code, source, response, requests, collected, reply,
          storeCalls, lastInsert, before, check>>

Terminal == {"ResolveFailed", "AnyProbeFailed", "AllProbesSucceeded"}

NoReply == [kind |-> "none", body |-> <<>>]
\* Err(Rejection): reject::custom(e)
Rejection == [kind |-> "rejection", body |-> <<>>]
\* Ok(warp::reply::json(&response))
JsonReply(v) == [kind |-> "json", body |-> v]

\* ------------------------------------------------------------- DashMap
\* a get that never finds the entry
CachedNever(cache, z) == FALSE

\* store_cache.get(&zip_code) is Some
Cached(cache, z) == z \in DOMAIN cache

\* an insert that is lost
CacheInsertLost(cache, z, v) == cache

\* an insert that replaces the whole map by the one entry
CacheInsertOnly(cache, z, v) == [k \in {z} |-> v]

\* an insert that keeps an entry already present
CacheInsertIfAbsent(cache, z, v) ==
    [k \in DOMAIN cache \cup {z} |-> IF k \in DOMAIN cache THEN cache[k] ELSE v]

\* store_cache.insert(zip_code, response.clone())
CacheInsert(cache, z, v) ==
    [k \in DOMAIN cache \cup {z} |-> IF k = z THEN v ELSE cache[k]]

\* ------------------------------------------------------------- fan-out
\* a loop that skips the first store
MakeProbesSkipFirst(stores) ==
    [i \in 1..(Len(stores) - 1) |->
        [store |-> stores[i + 1], st |-> "send", calls |-> 1, pa |-> FALSE]]

\* main.rs 189-217: one future per store of the response, each owning its
\* store; `calls` counts the checkSlots GETs the future has sent, `pa` is the
\* possible_availability the future computed once it is done
MakeProbes(stores) ==
    [i \in 1..Len(stores) |->
        [store |-> stores[i], st |-> "send", calls |-> 1, pa |-> FALSE]]

\* main.rs 189-224 up to the first suspension of try_collect: the futures are
\* pushed, and the first poll sends every GET; an empty stream ends at once
\* and the handler returns Ok(json([]))
FanOut(r, stores) ==
    /\ requests' = [requests EXCEPT ![r] = MakeProbes(stores)]
    /\ collected' = [collected EXCEPT ![r] = <<>>]
    /\ IF MakeProbes(stores) = <<>>
         THEN /\ pc' = [pc EXCEPT ![r] = "AllProbesSucceeded"]
              /\ reply' = [reply EXCEPT ![r] = JsonReply(<<>>)]
         ELSE /\ pc' = [pc EXCEPT ![r] = "ProbingAvailability"]
              /\ UNCHANGED reply

\* ------------------------------------------------------------- actions
InitRequests ==
    /\ store_cache = <<>>
    /\ pc = [r \in Requests |-> "Idle"]
    /\ zip_code = [r \in Requests |-> ""]
    /\ source = [r \in Requests |-> "none"]
    /\ response = [r \in Requests |-> <<>>]
    /\ requests = [r \in Requests |-> <<>>]
    /\ collected = [r \in Requests |-> <<>>]
    /\ reply = [r \in Requests |-> NoReply]
    /\ storeCalls = [r \in Requests |-> 0]
    /\ lastInsert = [z \in ZipCodes |-> 0]
    /\ before = [r \in Requests |-> {}]

Init ==
    /\ InitRequests
    /\ check = [slots |-> <<>>, done |-> FALSE, possible_availability |-> FALSE]

\* a single-flight begin: a miss joins a getStores lookup already in flight
\* for the same postal code instead of sending its own
BeginSingleFlight(r, z) ==
    /\ pc[r] = "Idle"
    /\ \A q \in Requests : q < r => pc[q] # "Idle"
    /\ zip_code' = [zip_code EXCEPT ![r] = z]
    /\ before' = [before EXCEPT ![r] = {q \in Requests : pc[q] \in Terminal}]
    /\ IF Cached(store_cache, z)
         THEN /\ source' = [source EXCEPT ![r] = "cache"]
              /\ response' = [response EXCEPT ![r] = store_cache[z]]
              /\ FanOut(r, store_cache[z])
              /\ UNCHANGED storeCalls
         ELSE /\ pc' = [pc EXCEPT ![r] = "ListSend"]
              /\ storeCalls' = [storeCalls EXCEPT ![r] =
                    IF \E q \in Requests : /\ zip_code[q] = z
                                           /\ pc[q] \in {"ListSend", "ListJson"}
                      THEN @ ELSE @ + 1]
              /\ UNCHANGED <<source, response, requests, collected, reply>>
    /\ UNCHANGED <<store_cache, lastInsert, check>>

\* GET /availability/<z>: `availability` runs list_stores up to its first
\* .await (main.rs 185, 154-170).  Requests are numbered in arrival order.
Begin(r, z) ==
    /\ pc[r] = "Idle"
    /\ \A q \in Requests : q < r => pc[q] # "Idle"
    /\ zip_code' = [zip_code EXCEPT ![r] = z]
    /\ before' = [before EXCEPT ![r] = {q \in Requests : pc[q] \in Terminal}]
    /\ IF Cached(store_cache, z)
         THEN \* main.rs 154-158: return Ok(stores.clone())
              /\ source' = [source EXCEPT ![r] = "cache"]
              /\ response' = [response EXCEPT ![r] = store_cache[z]]
              /\ FanOut(r, store_cache[z])
              /\ UNCHANGED storeCalls
         ELSE \* main.rs 161-170: the getStores GET is sent
              /\ pc' = [pc EXCEPT ![r] = "ListSend"]
              /\ storeCalls' = [storeCalls EXCEPT ![r] = @ + 1]
              /\ UNCHANGED <<source, response, requests, collected, reply>>
    /\ UNCHANGED <<store_cache, lastInsert, check>>

\* a failed lookup that invalidates the entry of its postal code
ResolveFailEvicting(r) ==
    /\ pc' = [pc EXCEPT ![r] = "ResolveFailed"]
    /\ reply' = [reply EXCEPT ![r] = Rejection]
    /\ store_cache' = [k \in DOMAIN store_cache \ {zip_code[r]} |-> store_cache[k]]
    /\ UNCHANGED <<zip_code, source, response, requests, collected,
                   storeCalls, lastInsert, before, check>>

\* a failed lookup that caches an empty list
ResolveFailCaching(r) ==
    /\ pc' = [pc EXCEPT ![r] = "ResolveFailed"]
    /\ reply' = [reply EXCEPT ![r] = Rejection]
    /\ store_cache' = CacheInsert(store_cache, zip_code[r], <<>>)
    /\ UNCHANGED <<zip_code, source, response, requests, collected,
                   storeCalls, lastInsert, before, check>>

\* main.rs 185-187: list_stores returned Err; `?` returns the rejection
ResolveFail(r) ==
    /\ pc' = [pc EXCEPT ![r] = "ResolveFailed"]
    /\ reply' = [reply EXCEPT ![r] = Rejection]
    /\ UNCHANGED <<store_cache, zip_code, source, response, requests, collected,
                   storeCalls, lastInsert, before, check>>

\* main.rs 169-171: send().await yields the response head
ListSendOk(r) ==
    /\ pc[r] = "ListSend"
    /\ pc' = [pc EXCEPT ![r] = "ListJson"]
    /\ UNCHANGED <<store_cache, zip_code, source, response, requests, collected, reply,
                   storeCalls, lastInsert, before, check>>

\* a send failure that is retried: the getStores GET is sent again
ListSendErrRetry(r) ==
    /\ pc[r] = "ListSend"
    /\ storeCalls' = [storeCalls EXCEPT ![r] = @ + 1]
    /\ UNCHANGED <<store_cache, pc, zip_code, source, response, requests, collected,
                   reply, lastInsert, before, check>>

\* main.rs 171: send().await? fails (network)
ListSendErr(r) ==
    /\ pc[r] = "ListSend"
    /\ ResolveFail(r)

\* a decode failure answered as if an empty store list had been decoded
ListJsonErrFanOut(r) ==
    /\ pc[r] = "ListJson"
    /\ FanOut(r, <<>>)
    /\ UNCHANGED <<store_cache, zip_code, source, response,
                   storeCalls, lastInsert, before, check>>

\* main.rs 173: json().await? fails (body does not decode)
ListJsonErr(r) ==
    /\ pc[r] = "ListJson"
    /\ ResolveFail(r)

\* a lookup that caches the list without its last store
ListJsonOkPartial(r, stores) ==
    /\ pc[r] = "ListJson"
    /\ store_cache' = CacheInsert(store_cache, zip_code[r],
                                  SubSeq(stores, 1, Len(stores) - 1))
    /\ lastInsert' = [lastInsert EXCEPT ![zip_code[r]] = r]
    /\ source' = [source EXCEPT ![r] = "http"]
    /\ response' = [response EXCEPT ![r] = stores]
    /\ FanOut(r, stores)
    /\ UNCHANGED <<zip_code, storeCalls, before, check>>

\* main.rs 172-177, then 189-222: the body decodes to `stores`; the cache
\* entry is written, list_stores returns and the probes are started
ListJsonOk(r, stores) ==
    /\ pc[r] = "ListJson"
    /\ store_cache' = CacheInsert(store_cache, zip_code[r], stores)
    /\ lastInsert' = [lastInsert EXCEPT ![zip_code[r]] = r]
    /\ source' = [source EXCEPT ![r] = "http"]
    /\ response' = [response EXCEPT ![r] = stores]
    /\ FanOut(r, stores)
    /\ UNCHANGED <<zip_code, storeCalls, before, check>>

\* main.rs 197-199: a probe's send().await yields the response head
ProbeSendOk(r, i) ==
    /\ pc[r] = "ProbingAvailability"
    /\ i \in DOMAIN requests[r]
    /\ requests[r][i].st = "send"
    /\ requests' = [requests EXCEPT ![r][i].st = "json"]
    /\ UNCHANGED <<store_cache, pc, zip_code, source, response, collected, reply,
                   storeCalls, lastInsert, before, check>>

\* a probe failure that rolls the cache population back
TryCollectErrRollback(r, i) ==
    /\ requests' = [requests EXCEPT ![r][i].st = "err"]
    /\ collected' = [collected EXCEPT ![r] = <<>>]
    /\ pc' = [pc EXCEPT ![r] = "AnyProbeFailed"]
    /\ reply' = [reply EXCEPT ![r] = Rejection]
    /\ store_cache' = [k \in DOMAIN store_cache \ {zip_code[r]} |-> store_cache[k]]
    /\ UNCHANGED <<zip_code, source, response,
                   storeCalls, lastInsert, before, check>>

\* a collect that answers with the records gathered before the error
TryCollectErrPartial(r, i) ==
    /\ requests' = [requests EXCEPT ![r][i].st = "err"]
    /\ collected' = [collected EXCEPT ![r] = <<>>]
    /\ pc' = [pc EXCEPT ![r] = "AnyProbeFailed"]
    /\ reply' = [reply EXCEPT ![r] = JsonReply(collected[r])]
    /\ UNCHANGED <<store_cache, zip_code, source, response,
                   storeCalls, lastInsert, before, check>>

\* a collect that waits for the other probes before it reports the error
TryCollectErrJoin(r, i) ==
    /\ requests' = [requests EXCEPT ![r][i].st = "err"]
    /\ IF \A j \in DOMAIN requests[r] : j = i \/ requests[r][j].st \in {"done", "err"}
         THEN /\ collected' = [collected EXCEPT ![r] = <<>>]
              /\ pc' = [pc EXCEPT ![r] = "AnyProbeFailed"]
              /\ reply' = [reply EXCEPT ![r] = Rejection]
         ELSE UNCHANGED <<collected, pc, reply>>
    /\ UNCHANGED <<store_cache, zip_code, source, response,
                   storeCalls, lastInsert, before, check>>

\* main.rs 219-222: try_collect meets the first Err: it returns the error at
\* once, `?` returns the rejection, and the FuturesUnordered is dropped with
\* the futures still in it (they are never polled again) and the Vec so far
TryCollectErr(r, i) ==
    /\ requests' = [requests EXCEPT ![r][i].st = "err"]
    /\ collected' = [collected EXCEPT ![r] = <<>>]
    /\ pc' = [pc EXCEPT ![r] = "AnyProbeFailed"]
    /\ reply' = [reply EXCEPT ![r] = Rejection]
    /\ UNCHANGED <<store_cache, zip_code, source, response,
                   storeCalls, lastInsert, before, check>>

\* main.rs 199-200: a probe's send().await fails
ProbeSendErr(r, i) ==
    /\ pc[r] = "ProbingAvailability"
    /\ i \in DOMAIN requests[r]
    /\ requests[r][i].st = "send"
    /\ TryCollectErr(r, i)

\* main.rs 201-203: a probe's json().await fails
ProbeJsonErr(r, i) ==
    /\ pc[r] = "ProbingAvailability"
    /\ i \in DOMAIN requests[r]
    /\ requests[r][i].st = "json"
    /\ TryCollectErr(r, i)

\* a probe that takes its store from the cache entry as it is on completion
\* (the entry's last store when the entry has become shorter)
ProbeJsonOkFromCache(r, i, m) ==
    /\ pc[r] = "ProbingAvailability"
    /\ i \in DOMAIN requests[r]
    /\ requests[r][i].st = "json"
    /\ requests' = [requests EXCEPT ![r][i].st = "done",
                                    ![r][i].pa = PossibleAvailability(m)]
    /\ LET cached == store_cache[zip_code[r]]
           store == IF i \in DOMAIN cached THEN cached[i]
                    ELSE IF cached # <<>> THEN cached[Len(cached)]
                    ELSE requests[r][i].store
           item == AvailabilityResponse(store, PossibleAvailability(m))
           vec == Append(collected[r], item)
       IN  /\ collected' = [collected EXCEPT ![r] = vec]
           /\ IF \A j \in DOMAIN requests[r] : j = i \/ requests[r][j].st = "done"
                THEN /\ pc' = [pc EXCEPT ![r] = "AllProbesSucceeded"]
                     /\ reply' = [reply EXCEPT ![r] = JsonReply(vec)]
                ELSE UNCHANGED <<pc, reply>>
    /\ UNCHANGED <<store_cache, zip_code, source, response,
                   storeCalls, lastInsert, before, check>>

\* a collect that pairs the k-th record to complete with the k-th store
ProbeJsonOkByPosition(r, i, m) ==
    /\ pc[r] = "ProbingAvailability"
    /\ i \in DOMAIN requests[r]
    /\ requests[r][i].st = "json"
    /\ requests' = [requests EXCEPT ![r][i].st = "done",
                                    ![r][i].pa = PossibleAvailability(m)]
    /\ LET item == AvailabilityResponse(response[r][Len(collected[r]) + 1],
                                        PossibleAvailability(m))
           vec == Append(collected[r], item)
       IN  /\ collected' = [collected EXCEPT ![r] = vec]
           /\ IF \A j \in DOMAIN requests[r] : j = i \/ requests[r][j].st = "done"
                THEN /\ pc' = [pc EXCEPT ![r] = "AllProbesSucceeded"]
                     /\ reply' = [reply EXCEPT ![r] = JsonReply(vec)]
                ELSE UNCHANGED <<pc, reply>>
    /\ UNCHANGED <<store_cache, zip_code, source, response,
                   storeCalls, lastInsert, before, check>>

\* main.rs 201-215, 219-224: a probe's body decodes to slot map m; the future
\* yields its AvailabilityResponse, try_collect pushes it, and when no future
\* is left the handler returns Ok(json(vec))
ProbeJsonOk(r, i, m) ==
    /\ pc[r] = "ProbingAvailability"
    /\ i \in DOMAIN requests[r]
    /\ requests[r][i].st = "json"
    /\ requests' = [requests EXCEPT ![r][i].st = "done",
                                    ![r][i].pa = PossibleAvailability(m)]
    /\ LET item == AvailabilityResponse(requests[r][i].store, PossibleAvailability(m))
           vec == Append(collected[r], item)
       IN  /\ collected' = [collected EXCEPT ![r] = vec]
           /\ IF \A j \in DOMAIN requests[r] : j = i \/ requests[r][j].st = "done"
                THEN /\ pc' = [pc EXCEPT ![r] = "AllProbesSucceeded"]
                     /\ reply' = [reply EXCEPT ![r] = JsonReply(vec)]
                ELSE UNCHANGED <<pc, reply>>
    /\ UNCHANGED <<store_cache, zip_code, source, response,
                   storeCalls, lastInsert, before, check>>

Next ==
    \/ \E r \in Requests, z \in ZipCodes : Begin(r, z)
    \/ \E r \in Requests : ListSendOk(r)
    \/ \E r \in Requests : ListSendErr(r)
    \/ \E r \in Requests : ListJsonErr(r)
    \/ \E r \in Requests : \E stores \in StoreLists(zip_code[r]) : ListJsonOk(r, stores)
    \/ \E r \in Requests, i \in 1..MaxStores : ProbeSendOk(r, i)
    \/ \E r \in Requests, i \in 1..MaxStores : ProbeSendErr(r, i)
    \/ \E r \in Requests, i \in 1..MaxStores : ProbeJsonErr(r, i)
    \/ \E r \in Requests, i \in 1..MaxStores : \E m \in ProbeSlotMaps : ProbeJsonOk(r, i, m)

Spec == Init /\ [][Next]_vars

\* an upstream call of request r (its lookup or one of its probes) completes,
\* with success or failure, and the task is polled
UpstreamCompletes(r) ==
    \/ ListSendOk(r)
    \/ ListSendErr(r)
    \/ ListJsonErr(r)
    \/ \E stores \in StoreLists(zip_code[r]) : ListJsonOk(r, stores)
    \/ \E i \in 1..MaxStores :
          \/ ProbeSendOk(r, i)
          \/ ProbeSendErr(r, i)
          \/ ProbeJsonErr(r, i)
          \/ \E m \in ProbeSlotMaps : ProbeJsonOk(r, i, m)

\* the requests under the assumption that every upstream call that was sent
\* completes and the runtime polls every woken task
FairSpec == Spec /\ \A r \in Requests : WF_vars(UpstreamCompletes(r))

\* ------------------------------------------------- the availability policy
\* main.rs 205-207 applied to every slot map over SlotKeys
InitSlots ==
    /\ InitRequests
    /\ check \in {[slots |-> m, done |-> FALSE, possible_availability |-> FALSE] :
                    m \in SlotMaps}

CheckSlots ==
    /\ ~check.done
    /\ check' = [check EXCEPT !.done = TRUE,
                              !.possible_availability = PossibleAvailability(check.slots)]
    /\ UNCHANGED <<store_cache, pc, zip_code, source, response, requests, collected,
                   reply, storeCalls, lastInsert, before>>

NextSlots == CheckSlots

SpecSlots == InitSlots /\ [][NextSlots]_vars


\* ------------------------------------------------------------- claims
\* number of places of seq that hold x
Occ(seq, x) == Cardinality({i \in DOMAIN seq : seq[i] = x})

\* the (id, address, postal code, phone) of a record, as a Store
LocationOf(rec) == Store(rec.id, rec.address, rec.zip, rec.phone)

Locations(body) == [k \in DOMAIN body |-> LocationOf(body[k])]

\* r began (r is no longer Idle) in this step
Begins(r) == pc[r] = "Idle" /\ pc'[r] # "Idle"

\* r1 and r2 are two sequential calls for the same postal code, the only
\* calls for it, r2 has returned, and the Store Client gave r2 no successful
\* answer (it failed, or it was not asked)
Sequential(r1, r2) ==
    /\ r1 # r2
    /\ r1 \in before[r2]
    /\ zip_code[r1] = zip_code[r2]
    /\ \A q \in Requests \ {r1, r2} : zip_code[q] # zip_code[r2]
    /\ pc[r2] \in Terminal
    /\ source[r2] # "http"

\* C1 (as stated): of two sequential calls for P with the Store Client failing
\* on the second, the second succeeds iff the first succeeded and populated
\* the cache entry (second calls none of whose probes failed).
C1_SecondIffFirstSucceeded ==
    \A r1 \in Requests, r2 \in Requests :
        (Sequential(r1, r2) /\ pc[r2] # "AnyProbeFailed") =>
            (pc[r2] = "AllProbesSucceeded"
                <=> (pc[r1] = "AllProbesSucceeded" /\ source[r1] = "http"))

\* C1 (as amended): the second call resolves its locations (from the cache,
\* with no Store Client request) iff the first call's Store Client lookup
\* succeeded and populated the entry, whether or not the first call itself
\* succeeded; it succeeds iff moreover every one of its probes succeeded.
C1_SecondIffFirstPopulated ==
    \A r1 \in Requests, r2 \in Requests :
        Sequential(r1, r2) =>
            /\ pc[r2] # "ResolveFailed" <=> source[r1] = "http"
            /\ source[r1] = "http" =>
                  /\ source[r2] = "cache"
                  /\ response[r2] = response[r1]
                  /\ storeCalls[r2] = 0
            /\ pc[r2] = "AllProbesSucceeded" <=>
                  /\ source[r1] = "http"
                  /\ \A i \in DOMAIN requests[r2] : requests[r2][i].st = "done"

\* the first call populated the cache and then failed on a probe; the second
\* call, served from the cache, succeeded
C1_Witness ==
    \E r1 \in Requests, r2 \in Requests :
        /\ Sequential(r1, r2)
        /\ pc[r1] = "AnyProbeFailed"
        /\ source[r1] = "http"
        /\ pc[r2] = "AllProbesSucceeded"
        /\ source[r2] = "cache"
        /\ reply[r2].body # <<>>

\* a beginning request whose postal code is cached
C2_HitStep ==
    \A r \in Requests :
        (Begins(r) /\ zip_code'[r] \in DOMAIN store_cache) =>
            /\ response'[r] = store_cache[zip_code'[r]]
            /\ source'[r] = "cache"
            /\ storeCalls'[r] = 0
            /\ pc'[r] \in {"ProbingAvailability", "AllProbesSucceeded"}

C2_HitNeverCalls ==
    \A r \in Requests :
        source[r] = "cache" => storeCalls[r] = 0 /\ pc[r] # "ResolveFailed"

\* C2: a request that begins while the cache holds an entry for its postal
\* code resolves to exactly the cached list and sends no getStores request,
\* then or later; its resolution cannot fail.
C2_CacheHitNoUpstream == []C2_HitNeverCalls /\ [][C2_HitStep]_vars

C2_Witness ==
    \E r \in Requests :
        /\ source[r] = "cache"
        /\ response[r] = store_cache[zip_code[r]]
        /\ response[r] # <<>>
        /\ storeCalls[r] = 0

\* C3: a request that resolved N locations has exactly N probe futures, the
\* i-th for the i-th location, each having sent one checkSlots request; when
\* all succeed the reply holds N records whose (id, address, postal code,
\* phone) are the resolved locations, each as many times as it was resolved.
C3_OneProbePerLocation ==
    \A r \in Requests :
        /\ pc[r] \in {"ProbingAvailability", "AnyProbeFailed", "AllProbesSucceeded"} =>
              /\ Len(requests[r]) = Len(response[r])
              /\ \A i \in DOMAIN requests[r] :
                    /\ requests[r][i].store = response[r][i]
                    /\ requests[r][i].calls = 1
        /\ pc[r] = "AllProbesSucceeded" =>
              /\ reply[r].kind = "json"
              /\ Len(reply[r].body) = Len(response[r])
              /\ \A i \in DOMAIN response[r] :
                    Occ(Locations(reply[r].body), response[r][i]) =
                        Occ(response[r], response[r][i])
              /\ \A k \in DOMAIN reply[r].body :
                    Occ(response[r], LocationOf(reply[r].body[k])) > 0

C3_Witness ==
    \E r \in Requests :
        /\ pc[r] = "AllProbesSucceeded"
        /\ Len(response[r]) = MaxStores
        /\ Len(reply[r].body) = MaxStores

\* C4: a request one of whose probes failed has returned the rejection and no
\* result; a JSON result is returned only when every probe succeeded.
C4_NoPartialResult ==
    \A r \in Requests :
        /\ (\E i \in DOMAIN requests[r] : requests[r][i].st = "err") =>
              /\ pc[r] = "AnyProbeFailed"
              /\ reply[r] = Rejection
        /\ pc[r] = "AnyProbeFailed" => reply[r] = Rejection
        /\ reply[r].kind = "json" =>
              \A i \in DOMAIN requests[r] : requests[r][i].st = "done"

\* one probe failed after a sibling had succeeded: the sibling's record is in
\* no reply
C4_Witness ==
    \E r \in Requests :
        /\ pc[r] = "AnyProbeFailed"
        /\ \E i \in DOMAIN requests[r], j \in DOMAIN requests[r] :
              requests[r][i].st = "err" /\ requests[r][j].st = "done"

\* C5: possible_availability is true iff the slot map has exactly 2 entries
\* and its entry "1" is true; it is false for maps of size 0, 1, 3 and more
\* and for size-2 maps where "1" is absent or false.
C5_PolicyExact ==
    check.done =>
        /\ check.possible_availability <=>
              /\ Cardinality(DOMAIN check.slots) = 2
              /\ "1" \in DOMAIN check.slots
              /\ check.slots["1"]
        /\ Cardinality(DOMAIN check.slots) # 2 => ~check.possible_availability
        /\ "1" \notin DOMAIN check.slots => ~check.possible_availability

C5_Witness ==
    /\ check.done
    /\ check.possible_availability
    /\ DOMAIN check.slots = {"1", "3"}

\* where every cache entry comes from
C6_EntryFromLookup ==
    \A z \in DOMAIN store_cache :
        /\ store_cache[z] \in StoreLists(z)
        /\ \E r \in Requests :
              /\ zip_code[r] = z
              /\ source[r] = "http"
              /\ storeCalls[r] = 1
              /\ response[r] = store_cache[z]

\* the entry of z is added, removed or given another value in this step
EntryChanged(z) ==
    \/ (z \in DOMAIN store_cache) # (z \in DOMAIN store_cache')
    \/ /\ z \in DOMAIN store_cache
       /\ z \in DOMAIN store_cache'
       /\ store_cache'[z] # store_cache[z]

\* the one step that writes an entry
C6_WriteStep ==
    \A z \in ZipCodes :
        EntryChanged(z) =>
            \E r \in Requests :
                /\ zip_code[r] = z
                /\ pc[r] = "ListJson"
                /\ pc'[r] \in {"ProbingAvailability", "AllProbesSucceeded"}
                /\ z \in DOMAIN store_cache'
                /\ store_cache'[z] = response'[r]

\* C6: every cache entry for P is the whole store list some request for P
\* decoded from a successful getStores answer for P; an entry is written only
\* by the step in which a request that missed decodes such an answer.
C6_CacheHoldsOnlyLookups == []C6_EntryFromLookup /\ [][C6_WriteStep]_vars

C6_Witness ==
    \E z \in DOMAIN store_cache, r \in Requests :
        /\ Len(store_cache[z]) = MaxStores
        /\ zip_code[r] = z
        /\ source[r] = "http"
        /\ response[r] = store_cache[z]

\* a lookup that fails, and a request that begins on a miss
C7_FailStep ==
    \A r \in Requests :
        /\ (pc[r] \in {"ListSend", "ListJson"} /\ pc'[r] = "ResolveFailed") =>
              /\ store_cache' = store_cache
              /\ reply'[r] = Rejection
              /\ requests'[r] = <<>>
        /\ (Begins(r) /\ zip_code'[r] \notin DOMAIN store_cache) =>
              /\ pc'[r] = "ListSend"
              /\ storeCalls'[r] = 1

\* C7: when a request's getStores lookup fails the request returns the
\* rejection, has no probes, and the cache is left as it was; a request that
\* begins while its postal code is not cached sends a getStores request.
C7_FailedLookupNotCached == [][C7_FailStep]_vars

\* a request's lookup failed; the next request for the same postal code
\* missed and asked the Store Client again
C7_Witness ==
    \E r1 \in Requests, r2 \in Requests :
        /\ r1 \in before[r2]
        /\ zip_code[r1] = zip_code[r2]
        /\ pc[r1] = "ResolveFailed"
        /\ zip_code[r1] \notin DOMAIN store_cache
        /\ storeCalls[r2] = 1

\* what one step may touch
C8_KeyStep ==
    /\ \A z \in ZipCodes :
          EntryChanged(z) => \E r \in Requests : zip_code[r] = z /\ pc'[r] # pc[r]
    /\ \A r \in Requests :
          Begins(r) =>
              /\ source'[r] = "cache" <=> zip_code'[r] \in DOMAIN store_cache
              /\ source'[r] = "cache" => response'[r] = store_cache[zip_code'[r]]
    /\ \A r \in Requests, q \in Requests :
          (r # q /\ pc'[r] # pc[r]) =>
              /\ response'[q] = response[q]
              /\ requests'[q] = requests[q]
              /\ pc'[q] = pc[q]
              /\ reply'[q] = reply[q]

\* C8: a step changes the cache entry of postal code Q only if it is the
\* step of a request for Q; a request that begins reads only the entry of its
\* own postal code; a step of one request changes no other request's state.
C8_CacheIsolation == [][C8_KeyStep]_vars

\* two concurrent requests for different postal codes each populated its own
\* entry
C8_Witness ==
    \E r1 \in Requests, r2 \in Requests :
        /\ zip_code[r1] # zip_code[r2]
        /\ r1 \notin before[r2] /\ r2 \notin before[r1]
        /\ source[r1] = "http" /\ source[r2] = "http"
        /\ response[r1] # <<>> /\ response[r2] # <<>>
        /\ store_cache[zip_code[r1]] = response[r1]
        /\ store_cache[zip_code[r2]] = response[r2]

\* C9: inserting a list twice leaves the cache as after one insert, a second
\* insert for the same postal code replaces the first, and every entry holds
\* the list of the request that inserted last.
C9_LastWriteWins ==
    /\ \A z \in DOMAIN store_cache :
          /\ lastInsert[z] # 0
          /\ store_cache[z] = response[lastInsert[z]]
    /\ \A z \in ZipCodes : z \notin DOMAIN store_cache => lastInsert[z] = 0
    /\ \A z \in ZipCodes : \A v \in StoreLists(z), w \in StoreLists(z) :
          /\ CacheInsert(CacheInsert(store_cache, z, v), z, v)
                = CacheInsert(store_cache, z, v)
          /\ CacheInsert(CacheInsert(store_cache, z, v), z, w)
                = CacheInsert(store_cache, z, w)
          /\ CacheInsert(store_cache, z, v)[z] = v

\* two lookups for the same postal code decoded different lists and both
\* inserted: the entry is the later one's
C9_Witness ==
    \E r1 \in Requests, r2 \in Requests :
        /\ r1 # r2
        /\ zip_code[r1] = zip_code[r2]
        /\ source[r1] = "http" /\ source[r2] = "http"
        /\ response[r1] # response[r2]
        /\ lastInsert[zip_code[r2]] = r2
        /\ store_cache[zip_code[r2]] = response[r2]

\* a probe that fails, and a request that has failed on a probe
C10_FailStep ==
    \A r \in Requests :
        /\ \A i \in DOMAIN requests[r] :
              (/\ i \in DOMAIN requests'[r]
               /\ requests[r][i].st # "err"
               /\ requests'[r][i].st = "err") =>
                  /\ pc'[r] = "AnyProbeFailed"
                  /\ reply'[r] = Rejection
        /\ pc[r] = "AnyProbeFailed" =>
              /\ pc'[r] = "AnyProbeFailed"
              /\ reply'[r] = Rejection
              /\ requests'[r] = requests[r]
              /\ collected'[r] = <<>>

\* C10: the step in which a probe fails is the step in which the request
\* returns the rejection, whatever the state of the sibling probes; from then
\* on the request's reply, probes and collected records never change (no
\* sibling completes into a result, none is sent again).
C10_FailFast == [][C10_FailStep]_vars

\* the request has failed while a sibling probe is still outstanding
C10_Witness ==
    \E r \in Requests :
        /\ pc[r] = "AnyProbeFailed"
        /\ reply[r] = Rejection
        /\ \E j \in DOMAIN requests[r] : requests[r][j].st \in {"send", "json"}

\* the state of the per-request state machine the task is in: the two awaits
\* of the getStores lookup are both ResolvingLocations
Phase(p) == IF p \in {"ListSend", "ListJson"} THEN "ResolvingLocations" ELSE p

\* the transitions of the per-request state machine; a cache hit passes
\* through ResolvingLocations, and an empty store list through
\* ProbingAvailability, within one step
C11_Transitions ==
    {<<"Idle", "ResolvingLocations">>,
     <<"Idle", "ProbingAvailability">>,
     <<"Idle", "AllProbesSucceeded">>,
     <<"ResolvingLocations", "ResolvingLocations">>,
     <<"ResolvingLocations", "ResolveFailed">>,
     <<"ResolvingLocations", "ProbingAvailability">>,
     <<"ResolvingLocations", "AllProbesSucceeded">>,
     <<"ProbingAvailability", "AnyProbeFailed">>,
     <<"ProbingAvailability", "AllProbesSucceeded">>}

\* what each state of the machine means for the request's probes and reply
C11_StateShape ==
    \A r \in Requests :
        /\ Phase(pc[r]) \in {"Idle", "ResolvingLocations", "ResolveFailed"} =>
              /\ requests[r] = <<>>
              /\ source[r] = "none"
        /\ requests[r] # <<>> => source[r] \in {"cache", "http"}
        /\ pc[r] \in {"ProbingAvailability", "AnyProbeFailed", "AllProbesSucceeded"} =>
              source[r] \in {"cache", "http"}
        /\ reply[r].kind = "json" <=> pc[r] = "AllProbesSucceeded"
        /\ reply[r].kind = "rejection" <=> pc[r] \in {"ResolveFailed", "AnyProbeFailed"}

\* the steps of one request
C11_Step ==
    \A r \in Requests :
        /\ pc'[r] # pc[r] => <<Phase(pc[r]), Phase(pc'[r])>> \in C11_Transitions
        /\ pc[r] \in Terminal =>
              /\ pc'[r] = pc[r]
              /\ reply'[r] = reply[r]
              /\ requests'[r] = requests[r]
              /\ response'[r] = response[r]

\* C11: every request follows Idle -> ResolvingLocations -> {ResolveFailed |
\* ProbingAvailability -> {AnyProbeFailed | AllProbesSucceeded}}: no probe
\* exists before resolution has succeeded or after it failed, the three
\* terminal states are never left, and a result is returned exactly in
\* AllProbesSucceeded.
C11_StateMachine == []C11_StateShape /\ [][C11_Step]_vars

\* a request that went through the lookup and its probes to a result
C11_Witness ==
    \E r \in Requests :
        /\ pc[r] = "AllProbesSucceeded"
        /\ source[r] = "http"
        /\ storeCalls[r] = 1
        /\ Len(requests[r]) = MaxStores
        /\ reply[r].kind = "json"

\* r has a getStores lookup in flight
LookupInFlight(r) == pc[r] \in {"ListSend", "ListJson"}

\* a request that waits for a lookup has sent it itself
C12_OwnLookup == \A r \in Requests : LookupInFlight(r) => storeCalls[r] = 1

\* a request that begins on a miss while another request's lookup for the
\* same postal code is in flight
C12_MissStep ==
    \A r \in Requests :
        (/\ Begins(r)
         /\ zip_code'[r] \notin DOMAIN store_cache
         /\ \E q \in Requests : /\ q # r
                                /\ zip_code[q] = zip_code'[r]
                                /\ LookupInFlight(q)) =>
            /\ LookupInFlight(r)'
            /\ storeCalls'[r] = storeCalls[r] + 1

\* C12: no single-flight: a request that misses sends its own getStores
\* lookup even while another request's lookup for the same postal code is in
\* flight, so two lookups for one key can be in flight together.
C12_NoSingleFlight == []C12_OwnLookup /\ [][C12_MissStep]_vars

\* two lookups for the same postal code are in flight
C12_Witness ==
    \E r1 \in Requests, r2 \in Requests :
        /\ r1 # r2
        /\ zip_code[r1] = zip_code[r2]
        /\ LookupInFlight(r1) /\ LookupInFlight(r2)
        /\ storeCalls[r1] = 1 /\ storeCalls[r2] = 1
        /\ zip_code[r1] \notin DOMAIN store_cache

\* the record probe future i of request r yielded
Yielded(r, i) == AvailabilityResponse(requests[r][i].store, requests[r][i].pa)

\* C13: whatever the order in which the probes of a request completed, the
\* reply holds, for every probe, the record of that probe's own store with
\* the possible_availability that probe computed, as many times as probes
\* yielded it, and nothing else; only the order of the records follows the
\* order of completion.
C13_OrderIndependent ==
    \A r \in Requests :
        pc[r] = "AllProbesSucceeded" =>
            /\ Len(reply[r].body) = Len(requests[r])
            /\ \A i \in DOMAIN requests[r] :
                  Occ(reply[r].body, Yielded(r, i)) =
                      Cardinality({j \in DOMAIN requests[r] : Yielded(r, j) = Yielded(r, i)})
            /\ \A k \in DOMAIN reply[r].body :
                  \E i \in DOMAIN requests[r] : reply[r].body[k] = Yielded(r, i)

\* the probes completed in the reverse of the stores' order, with different
\* availabilities
C13_Witness ==
    \E r \in Requests :
        /\ pc[r] = "AllProbesSucceeded"
        /\ Len(response[r]) >= 2
        /\ reply[r].body[1].id = response[r][2].store_number
        /\ reply[r].body[2].id = response[r][1].store_number
        /\ reply[r].body[1].possible_availability
        /\ ~reply[r].body[2].possible_availability

\* C14: no step removes a key from the cache: the set of cached postal codes
\* only grows.
C14_NeverInvalidated ==
    [][\A z \in ZipCodes : z \in DOMAIN store_cache => z \in DOMAIN store_cache']_vars

\* an entry outlived the request that wrote it and a later request that it
\* served
C14_Witness ==
    \E z \in DOMAIN store_cache, r \in Requests :
        /\ lastInsert[z] # 0
        /\ pc[lastInsert[z]] \in Terminal
        /\ zip_code[r] = z
        /\ lastInsert[z] \in before[r]
        /\ source[r] = "cache"
        /\ pc[r] \in Terminal
        /\ store_cache[z] = response[lastInsert[z]]

\* the entry of z is present before and after this step with another value
Overwritten(z) ==
    /\ z \in DOMAIN store_cache
    /\ z \in DOMAIN store_cache'
    /\ store_cache'[z] # store_cache[z]

\* C15 (as stated): once the entry for P is inserted its list has the same
\* value in every later state.
C15_EntriesImmutable == [][\A z \in ZipCodes : ~Overwritten(z)]_vars

\* the steps that may change an entry, and the steps that may not
C15_Step ==
    /\ \A z \in ZipCodes :
          Overwritten(z) =>
              \E r \in Requests :
                  /\ zip_code[r] = z
                  /\ pc[r] = "ListJson"
                  /\ storeCalls[r] = 1
                  /\ source'[r] = "http"
                  /\ store_cache'[z] = response'[r]
    /\ \A z \in ZipCodes :
          (\A r \in Requests : zip_code[r] = z => ~LookupInFlight(r)) =>
              ~Overwritten(z)
    /\ \A r \in Requests :
          (Begins(r) /\ zip_code'[r] \in DOMAIN store_cache) =>
              /\ ~LookupInFlight(r)'
              /\ store_cache' = store_cache

\* C15 (as amended): an entry is never changed in place; its list is replaced
\* only by the whole decoded list of a request for the same postal code whose
\* getStores lookup was in flight (a concurrent miss); a request that begins
\* once the entry exists sends no lookup and leaves it alone, so with no
\* lookup for P in flight the entry keeps its value.
C15_ReplacedOnlyByConcurrentMiss == [][C15_Step]_vars

\* two concurrent misses for one postal code: the entry the first wrote was
\* replaced by the second's different list
C15_Witness ==
    \E r1 \in Requests, r2 \in Requests :
        /\ r1 # r2
        /\ zip_code[r1] = zip_code[r2]
        /\ r1 \notin before[r2] /\ r2 \notin before[r1]
        /\ source[r1] = "http" /\ source[r2] = "http"
        /\ lastInsert[zip_code[r1]] = r2
        /\ store_cache[zip_code[r1]] = response[r2]
        /\ store_cache[zip_code[r1]] # response[r1]
        /\ pc[r1] \in Terminal /\ pc[r2] \in Terminal

\* how many upstream requests a request has sent, and what a failure means
C16_Counts ==
    \A r \in Requests :
        /\ storeCalls[r] <= 1
        /\ source[r] = "cache" => storeCalls[r] = 0
        /\ Len(requests[r]) <= Len(response[r])
        /\ \A i \in DOMAIN requests[r] : requests[r][i].calls <= 1
        /\ (\E i \in DOMAIN requests[r] : requests[r][i].st = "err") =>
              pc[r] = "AnyProbeFailed" /\ reply[r] = Rejection

\* the order of the states of one upstream call
C16_Forward ==
    {<<"send", "json">>, <<"send", "err">>, <<"json", "err">>, <<"json", "done">>}

\* no step sends a request again or takes an upstream call back
C16_Step ==
    \A r \in Requests :
        /\ ~Begins(r) => storeCalls'[r] = storeCalls[r]
        /\ (LookupInFlight(r) /\ pc'[r] # pc[r]) =>
              /\ pc'[r] # "ListSend"
              /\ pc'[r] \in {"ListJson", "ResolveFailed",
                             "ProbingAvailability", "AllProbesSucceeded"}
        /\ requests[r] # <<>> =>
              /\ DOMAIN requests'[r] = DOMAIN requests[r]
              /\ \A i \in DOMAIN requests[r] :
                    /\ requests'[r][i].calls = requests[r][i].calls
                    /\ requests'[r][i].store = requests[r][i].store
                    /\ \/ requests'[r][i].st = requests[r][i].st
                       \/ <<requests[r][i].st, requests'[r][i].st>> \in C16_Forward

\* C16: no retries: a request sends at most one getStores request and at most
\* one checkSlots request per resolved location, no upstream call is started
\* again once it has failed, and a failed lookup or a failed probe leaves the
\* request failed.
C16_NoRetries == []C16_Counts /\ [][C16_Step]_vars

\* one request failed on its single lookup, another on a probe, each upstream
\* request having been sent once
C16_Witness ==
    \E r1 \in Requests, r2 \in Requests :
        /\ pc[r1] = "ResolveFailed"
        /\ storeCalls[r1] = 1
        /\ pc[r2] = "AnyProbeFailed"
        /\ Len(requests[r2]) = MaxStores
        /\ \A i \in DOMAIN requests[r2] : requests[r2][i].calls = 1

\* the entry a failed request populated is there, and serves later requests
C17_EntryKept ==
    \A r1 \in Requests :
        (pc[r1] = "AnyProbeFailed" /\ source[r1] = "http") =>
            /\ zip_code[r1] \in DOMAIN store_cache
            /\ \A r2 \in Requests :
                  (r1 \in before[r2] /\ zip_code[r2] = zip_code[r1]) =>
                      /\ source[r2] = "cache"
                      /\ storeCalls[r2] = 0
                      /\ pc[r2] # "ResolveFailed"

\* the step in which a request fails on a probe
C17_FailStep ==
    \A r \in Requests :
        (pc[r] = "ProbingAvailability" /\ pc'[r] = "AnyProbeFailed") =>
            store_cache' = store_cache

\* C17: a probe failure does not roll the cache population back: the step in
\* which a request fails on a probe leaves the cache as it was, so the entry
\* the request populated is still there and a later request for the same
\* postal code resolves from the cache without a getStores request.
C17_PopulationNotRolledBack == []C17_EntryKept /\ [][C17_FailStep]_vars

\* a request populated the cache and failed on a probe; a later request for
\* the same postal code is probing the list it took from the cache
C17_Witness ==
    \E r1 \in Requests, r2 \in Requests :
        /\ pc[r1] = "AnyProbeFailed"
        /\ source[r1] = "http"
        /\ r1 \in before[r2]
        /\ zip_code[r2] = zip_code[r1]
        /\ source[r2] = "cache"
        /\ storeCalls[r2] = 0
        /\ pc[r2] = "ProbingAvailability"
        /\ response[r2] = response[r1]

\* the stores the probe futures of r own, in the order they were pushed
ProbedStores(r) == [i \in DOMAIN requests[r] |-> requests[r][i].store]

\* a request's probes and records are those of the list it resolved
C18_OwnList ==
    \A r \in Requests :
        pc[r] \in {"ProbingAvailability", "AnyProbeFailed", "AllProbesSucceeded"} =>
            /\ ProbedStores(r) = response[r]
            /\ \A k \in DOMAIN collected[r] :
                  \E i \in DOMAIN response[r] :
                      /\ requests[r][i].st = "done"
                      /\ LocationOf(collected[r][k]) = response[r][i]
            /\ pc[r] = "AllProbesSucceeded" =>
                  /\ DOMAIN reply[r].body = DOMAIN response[r]
                  /\ \A i \in DOMAIN response[r] :
                        \E k \in DOMAIN reply[r].body :
                            LocationOf(reply[r].body[k]) = response[r][i]

\* a change of the cache entry changes no resolved list and no probe's store
C18_Step ==
    \A r \in Requests :
        (source[r] # "none" /\ EntryChanged(zip_code[r])) =>
            /\ response'[r] = response[r]
            /\ ProbedStores(r)' = ProbedStores(r)

\* C18: each request probes the list it resolved itself: its probe futures own
\* the stores of its own response and its records are built from them, also
\* when the cache entry of its postal code has meanwhile been replaced by
\* another request's different list.
C18_ProbesOwnList == []C18_OwnList /\ [][C18_Step]_vars

\* two concurrent misses for one postal code decoded different lists; the
\* first's entry was replaced by the second's, and the first answered with
\* the records of its own list
C18_Witness ==
    \E r1 \in Requests, r2 \in Requests :
        /\ r1 # r2
        /\ zip_code[r1] = zip_code[r2]
        /\ source[r1] = "http" /\ source[r2] = "http"
        /\ lastInsert[zip_code[r1]] = r2
        /\ store_cache[zip_code[r1]] = response[r2]
        /\ Len(response[r1]) > Len(response[r2])
        /\ pc[r1] = "AllProbesSucceeded"
        /\ pc[r2] = "AllProbesSucceeded"
        /\ Len(reply[r1].body) = Len(response[r1])
        /\ Len(reply[r2].body) = Len(response[r2])
        /\ Len(response[r2]) > 0

\* r has begun and has not returned
Running(r) == pc[r] \notin Terminal \cup {"Idle"}

\* an upstream call of r ends in this step
CallEnds(r) ==
    \/ LookupInFlight(r) /\ pc'[r] # pc[r]
    \/ \E i \in DOMAIN requests[r] :
          /\ requests[r][i].st \in {"send", "json"}
          /\ i \in DOMAIN requests'[r]
          /\ requests'[r][i].st # requests[r][i].st

\* a running request moves only when one of its upstream calls ends: nothing
\* else (no timer) returns it
C19_NoTimeout ==
    \A r \in Requests :
        (Running(r) /\ (pc'[r] # pc[r] \/ reply'[r] # reply[r])) => CallEnds(r)

\* C19: when every upstream call that was sent completes and the tasks are
\* scheduled fairly, every request that has begun reaches ResolveFailed,
\* AnyProbeFailed or AllProbesSucceeded; and a running request returns only in
\* a step in which one of its upstream calls ends, so without such a step it
\* never returns.
C19_Termination ==
    /\ \A r \in Requests : Running(r) ~> (pc[r] \in Terminal)
    /\ [][C19_NoTimeout]_vars

\* both requests have returned, one of them after all of its probes
C19_Witness ==
    /\ \A r \in Requests : pc[r] \in Terminal
    /\ \E r \in Requests :
          /\ pc[r] = "AllProbesSucceeded"
          /\ source[r] = "http"
          /\ Len(requests[r]) = MaxStores
    /\ \E r \in Requests : pc[r] = "AnyProbeFailed"

====
